---- MODULE Spec2Model ----
(***************************************************************************)
(* A model of the node contract of qtpynodeeditor:                         *)
(*   - the binary math nodes of examples/calculator.py                     *)
(*     (MathOperationDataModel and its five concrete kinds), one call of   *)
(*     set_in_data at a time, stepped through its statements;              *)
(*   - the node-kind verifier of node_data.py (NodeDataModel._verify).     *)
(***************************************************************************)
EXTENDS Integers, Sequences, FiniteSets, TLC

\* ------------------------------------------------------------------ bounds
\* Numbers carried by the envelopes pushed to a node: 0..MaxNum.
MaxNum == 2
\* The model's stand-in for the largest finite float (sys.float_info.max):
\* an int above it cannot be converted to a float.
FloatMax == 1000
\* Port counts of the kinds given to the verifier range over 0..MaxPorts.
MaxPorts == 1
\* The texts typed into a line edit have at most MaxLen characters.
MaxLen == 2
\* The set_in_data calls on a display node are counted up to MaxCalls.
MaxCalls == 6

\* ------------------------------------------------------------ the envelopes
\* Python's None, in the shape of an envelope so that a slot always holds a
\* record.
None == [cls |-> "None", number |-> <<0, 1>>]

\* One more than the largest float: the number of an IntegerData that
\* float() refuses (OverflowError: int too large to convert to float).
Huge == FloatMax + 1

Nums == 0..MaxNum

\* A number is a normalised fraction <<numerator, denominator>>.
\* DecimalData(number): type id "decimal", a float.
DecimalData(q) == [cls |-> "DecimalData", number |-> q]
\* IntegerData(number): type id "integer", an int.
IntegerData(q) == [cls |-> "IntegerData", number |-> q]
\* A NodeData kind of another type id; it has a lock and no number (the
\* number field is a placeholder that is never read).
TextData == [cls |-> "TextData", number |-> <<0, 1>>]

\* data_type.id of an envelope.
data_type_id(e) ==
  CASE e.cls = "DecimalData" -> "decimal"
    [] e.cls = "IntegerData" -> "integer"
    [] OTHER -> "text"

\* The envelopes the engine pushes in the ordinary runs.
Pool ==
  {DecimalData(<<n, 1>>) : n \in Nums} \cup {IntegerData(<<n, 1>>) : n \in Nums}
    \cup {TextData}

\* An integer envelope whose number no float can hold.
HugeInt == IntegerData(<<Huge, 1>>)

\* Every envelope object of the model; each owns one re-entrant lock.
Envelopes == Pool \cup {HugeInt}

\* ------------------------------------------------------------- arithmetic
RECURSIVE GCD(_, _)
GCD(a, b) == IF b = 0 THEN a ELSE GCD(b, a % b)

Abs(x) == IF x < 0 THEN 0 - x ELSE x

\* The fraction n/d (d # 0) in lowest terms with a positive denominator.
Rat(n, d) ==
  LET g == GCD(Abs(n), Abs(d))
      s == IF d < 0 THEN 0 - 1 ELSE 1
  IN  <<(s * n) \div g, (s * d) \div g>>

RatAdd(a, b) == Rat(a[1] * b[2] + b[1] * a[2], a[2] * b[2])
RatSub(a, b) == Rat(a[1] * b[2] - b[1] * a[2], a[2] * b[2])
RatMul(a, b) == Rat(a[1] * b[1], a[2] * b[2])
RatDiv(a, b) == Rat(a[1] * b[2], a[2] * b[1])
\* floor(a / b) for b # 0.
RatFloorDiv(a, b) ==
  LET q == RatDiv(a, b) IN q[1] \div q[2]
\* Python's %: a - b * floor(a / b), the sign of the divisor.
RatMod(a, b) == RatSub(a, RatMul(b, <<RatFloorDiv(a, b), 1>>))
RatAbs(a) == <<Abs(a[1]), a[2]>>
\* a > n for an integer n.
RatAbove(a, n) == a[1] > n * a[2]
IsZero(a) == a[1] = 0

\* Whether a number is held as a float (DecimalData) or an int (IntegerData).
IsFloat(e) == e.cls = "DecimalData"

\* int -> float conversion fails above the float range.
FloatOverflows(e) == ~IsFloat(e) /\ RatAbove(RatAbs(e.number), FloatMax)

\* Mixed int/float arithmetic converts the int operand to a float first.
MixedOverflow(a, b) == (IsFloat(a) # IsFloat(b)) /\ (FloatOverflows(a) \/ FloatOverflows(b))

MathKinds == {"Addition", "Subtraction", "Multiplication", "Division", "Modulo"}

\* --------------------------------------------------------------- the state
VARIABLES
  name,                \* the node's kind: a member of MathKinds
  number1,             \* self._number1: the envelope at input port 0, or None
  number2,             \* self._number2: the envelope at input port 1, or None
  result,              \* self._result
  validation_state,    \* self._validation_state
  validation_message,  \* self._validation_message
  held,                \* per envelope, the hold count of its RLock
  pc,                  \* where the call in progress stands; "idle" between calls
  caller,              \* what entered the call: "set_in_data" or "direct"
  emitted,             \* the notifications emitted by the call, in order
  raised,              \* the exception the call ended with, or "none"
  computeCalls,        \* how often the call has invoked compute()
  lastPort,            \* <<port>> of the latest set_in_data call, else <<>>
  repeat,              \* the call repeats the (envelope, port) of the call before
  prevOut              \* out_data(0) and the validation pair when the call began

nodeVars ==
  <<name, number1, number2, result, validation_state, validation_message, held,
    pc, caller, emitted, raised, computeCalls, lastPort, repeat, prevOut>>

\* The state of the node-kind verifier (below).
VARIABLES
  parent,    \* the class the latest class statement derived from
  kind,      \* the class the latest class statement built
  outcome,   \* "none" before any class statement; then "created" or the error
  reasons,   \* the reasons listed by the aggregated ValueError
  depth      \* how many class statements have run

verifierVars == <<parent, kind, outcome, reasons, depth>>

\* The NodeData kinds and instances (below).
VARIABLES
  data_kind,     \* cls.data_type of the latest NodeData subclass statement
  declared,      \* whether that statement set data_type in its body
  data_outcome,  \* "none" before any such statement; then "created" or the error
  dataX,         \* two NodeData instances, by the data_type of their class
  dataY,
  same           \* the results of the latest same_type calls on dataX and dataY

dataVars == <<data_kind, declared, data_outcome, dataX, dataY, same>>

\* The converter registry and the connections made through it (below).
VARIABLES
  registry,    \* per (source id, target id), the registered converter or "absent"
  connection,  \* the latest connection attempt and how it ended
  delivered    \* the arguments of the downstream set_in_data calls it made

connectVars == <<registry, connection, delivered>>

\* The NumberSource node (below).
VARIABLES
  source_number,   \* self._number: None or a DecimalData
  line_edit,       \* the text of self._line_edit
  source_call,     \* the latest call on the node and the kind of its argument
  source_emitted,  \* the notifications that call emitted, in order
  source_raised,   \* the exception that call ended with, or "none"
  source_kept      \* that call left self._number as it was

sourceVars ==
  <<source_number, line_edit, source_call, source_emitted, source_raised, source_kept>>

\* The NumberDisplay node (below).
VARIABLES
  display_number,              \* self._number
  label,                       \* the text of self._label
  display_validation_state,    \* self._validation_state
  display_validation_message,  \* self._validation_message
  display_calls                \* how many set_in_data calls the node has had (capped)

displayVars ==
  <<display_number, label, display_validation_state, display_validation_message,
    display_calls>>

\* Two math nodes computed by two threads (below).
VARIABLES
  thread_number1,  \* per thread, self._number1 of its node
  thread_number2,  \* per thread, self._number2 of its node
  thread_pc,       \* per thread, where its set_in_data call stands
  thread_result,   \* per thread, self._result of its node
  lock_owner,      \* per envelope, the thread that owns its RLock, or 0
  lock_count       \* per envelope, the recursion level of its RLock

threadVars ==
  <<thread_number1, thread_number2, thread_pc, thread_result, lock_owner, lock_count>>

\* A saved NumberSource and the node it is loaded into (below).
VARIABLES
  source_saved,   \* the dict the latest save() of the NumberSource returned
  source_fresh,   \* the NumberSource is as its constructor left it
  source_loaded   \* the latest call restored source_saved into such a node

fileVars == <<source_saved, source_fresh, source_loaded>>

\* A second math node that receives the calls the first one receives (below).
VARIABLES
  twin,     \* the node that has no call in progress: its kind and fields
  pending,  \* the arguments of the call one node has had and the other has not
  phase     \* where the delivery of a call to the two nodes stands

twinVars == <<twin, pending, phase>>

\* What the actions of one part leave alone: all the other parts.
exceptNode ==
  <<verifierVars, dataVars, connectVars, sourceVars, displayVars, threadVars, fileVars, twinVars>>
exceptVerifier ==
  <<nodeVars, dataVars, connectVars, sourceVars, displayVars, threadVars, fileVars, twinVars>>
exceptData ==
  <<nodeVars, verifierVars, connectVars, sourceVars, displayVars, threadVars, fileVars, twinVars>>
exceptConnect ==
  <<nodeVars, verifierVars, dataVars, sourceVars, displayVars, threadVars, fileVars, twinVars>>
exceptSource ==
  <<nodeVars, verifierVars, dataVars, connectVars, displayVars, threadVars, twinVars>>
\* What a call entering a node leaves alone.
exceptCall ==
  <<verifierVars, dataVars, connectVars, sourceVars, displayVars, threadVars, fileVars>>
exceptDisplay ==
  <<nodeVars, verifierVars, dataVars, connectVars, sourceVars, threadVars, fileVars, twinVars>>
exceptThreads ==
  <<nodeVars, verifierVars, dataVars, connectVars, sourceVars, displayVars, fileVars, twinVars>>

\* Input port indexes of MathOperationDataModel: num_ports = PortCount(2, 1).
InPorts == {0, 1}

\* What a caller of the node contract observes.
out_data(port) == result
Observed ==
  [out |-> out_data(0), state |-> validation_state, message |-> validation_message]

\* The test of _check_inputs on one slot.
number_ok(e) == e # None /\ data_type_id(e) \in {"decimal", "integer"}

Holding == \E e \in Envelopes : held[e] > 0

\* One emission of a signal, with what held at that moment.
Emission(signal) ==
  [signal |-> signal, port |-> 0, holding |-> Holding, out |-> out_data(0)]

InitNode ==
  /\ name \in MathKinds
  /\ number1 = None
  /\ number2 = None
  /\ result = None
  /\ validation_state = "warning"
  /\ validation_message = "Uninitialized"
  /\ held = [e \in Envelopes |-> 0]
  /\ pc = "idle"
  /\ caller = "none"
  /\ emitted = <<>>
  /\ raised = "none"
  /\ computeCalls = 0
  /\ lastPort = <<>>
  /\ repeat = FALSE
  /\ prevOut = [out |-> None, state |-> "warning", message |-> "Uninitialized"]

\* The bookkeeping every entry into the node starts with.
BeginCall(who) ==
  /\ caller' = who
  /\ emitted' = <<>>
  /\ raised' = "none"
  /\ computeCalls' = 0
  /\ prevOut' = Observed

\* set_in_data(data, port): store the envelope, then go on to _check_inputs.
StoreInput(data, port) ==
  /\ number1' = IF port = 0 THEN data ELSE number1
  /\ number2' = IF port = 1 THEN data ELSE number2

SetInData(data, port) ==
  /\ pc = "idle"
  /\ StoreInput(data, port)
  /\ BeginCall("set_in_data")
  /\ repeat' = (lastPort = <<port>> /\ (IF port = 0 THEN number1 ELSE number2) = data)
  /\ lastPort' = <<port>>
  /\ pc' = "check"
  /\ UNCHANGED exceptCall
  /\ UNCHANGED <<name, result, validation_state, validation_message, held>>

\* A variant of _check_inputs that forgets "self._result = None".
CheckInputsKeepsResult ==
  /\ pc = "check"
  /\ IF ~number_ok(number1) \/ ~number_ok(number2)
       THEN /\ validation_state' = "warning"
            /\ validation_message' = "Missing or incorrect inputs"
            /\ emitted' = Append(emitted, Emission("data_updated"))
            /\ pc' = "idle"
            /\ UNCHANGED result
       ELSE /\ validation_state' = "valid"
            /\ validation_message' = ""
            /\ pc' = "lock"
            /\ UNCHANGED <<result, emitted>>
  /\ UNCHANGED exceptNode
  /\ UNCHANGED <<name, number1, number2, held, caller, raised, computeCalls,
                 lastPort, repeat, prevOut>>

\* A variant of _check_inputs that leaves the validation state and message
\* alone when both slots pass.
CheckInputsNoReset ==
  /\ pc = "check"
  /\ IF ~number_ok(number1) \/ ~number_ok(number2)
       THEN /\ validation_state' = "warning"
            /\ validation_message' = "Missing or incorrect inputs"
            /\ result' = None
            /\ emitted' = Append(emitted, [Emission("data_updated") EXCEPT !.out = None])
            /\ pc' = "idle"
       ELSE /\ pc' = "lock"
            /\ UNCHANGED <<validation_state, validation_message, result, emitted>>
  /\ UNCHANGED exceptNode
  /\ UNCHANGED <<name, number1, number2, held, caller, raised, computeCalls,
                 lastPort, repeat, prevOut>>

\* _check_inputs(): gate on both slots; on failure warn, clear the result,
\* emit data_updated(0) and return False (set_in_data then returns).
CheckInputs ==
  /\ pc = "check"
  /\ IF ~number_ok(number1) \/ ~number_ok(number2)
       THEN /\ validation_state' = "warning"
            /\ validation_message' = "Missing or incorrect inputs"
            /\ result' = None
            /\ emitted' = Append(emitted, [Emission("data_updated") EXCEPT !.out = None])
            /\ pc' = "idle"
       ELSE /\ validation_state' = "valid"
            /\ validation_message' = ""
            /\ pc' = "lock"
            /\ UNCHANGED <<result, emitted>>
  /\ UNCHANGED exceptNode
  /\ UNCHANGED <<name, number1, number2, held, caller, raised, computeCalls,
                 lastPort, repeat, prevOut>>

\* A variant of the entry of _compute_lock that tests number1 alone.
ComputeLockEnterOneSlot ==
  /\ pc = "lock"
  /\ IF number1 = None
       THEN /\ raised' = "RuntimeError"
            /\ pc' = "idle"
            /\ UNCHANGED held
       ELSE /\ held' = [held EXCEPT ![number1] = @ + 1]
            /\ pc' = "lock2"
            /\ UNCHANGED raised
  /\ UNCHANGED exceptNode
  /\ UNCHANGED <<name, number1, number2, result, validation_state,
                 validation_message, caller, emitted, computeCalls, lastPort,
                 repeat, prevOut>>

\* _compute_lock(), entry: refuse unset inputs, else take number1's lock.
ComputeLockEnter ==
  /\ pc = "lock"
  /\ IF number1 = None \/ number2 = None
       THEN /\ raised' = "RuntimeError"
            /\ pc' = "idle"
            /\ UNCHANGED held
       ELSE /\ held' = [held EXCEPT ![number1] = @ + 1]
            /\ pc' = "lock2"
            /\ UNCHANGED raised
  /\ UNCHANGED exceptNode
  /\ UNCHANGED <<name, number1, number2, result, validation_state,
                 validation_message, caller, emitted, computeCalls, lastPort,
                 repeat, prevOut>>

\* A variant of _compute_lock that emits data_updated(0) inside the with
\* block, before the body has run.
ComputeLockSecondEmits ==
  /\ pc = "lock2"
  /\ held' = [held EXCEPT ![number2] = @ + 1]
  /\ emitted' = Append(emitted, Emission("data_updated"))
  /\ pc' = "compute"
  /\ UNCHANGED exceptNode
  /\ UNCHANGED <<name, number1, number2, result, validation_state,
                 validation_message, caller, raised, computeCalls, lastPort,
                 repeat, prevOut>>

\* _compute_lock(): then take number2's lock and yield to the body.
ComputeLockSecond ==
  /\ pc = "lock2"
  /\ held' = [held EXCEPT ![number2] = @ + 1]
  /\ pc' = "compute"
  /\ UNCHANGED exceptNode
  /\ UNCHANGED <<name, number1, number2, result, validation_state,
                 validation_message, caller, emitted, raised, computeCalls,
                 lastPort, repeat, prevOut>>

\* A variant of the arithmetic in which Addition subtracts.
ArithAddSubtracts(op, a, b) ==
  CASE op \in {"Addition", "Subtraction"} -> RatSub(a, b)
    [] op = "Multiplication" -> RatMul(a, b)
    [] op = "Division" -> RatDiv(a, b)
    [] op = "Modulo" -> RatMod(a, b)

\* The arithmetic of the five compute() methods.
Arith(op, a, b) ==
  CASE op = "Addition" -> RatAdd(a, b)
    [] op = "Subtraction" -> RatSub(a, b)
    [] op = "Multiplication" -> RatMul(a, b)
    [] op = "Division" -> RatDiv(a, b)
    [] op = "Modulo" -> RatMod(a, b)

\* Division and Modulo test the divisor before any arithmetic.
ZeroDivisor(op, b) ==
  op \in {"Division", "Modulo"} /\ b.cls # "TextData" /\ IsZero(b.number)

\* The exception compute() raises on envelopes a and b, or "none": an envelope
\* without a number, an int no float can hold in mixed arithmetic, an int
\* quotient no float can hold.
ComputeRaises(op, a, b) ==
  CASE b.cls = "TextData" -> "AttributeError"
    [] ZeroDivisor(op, b) -> "none"
    [] a.cls = "TextData" -> "AttributeError"
    [] MixedOverflow(a, b) -> "OverflowError"
    [] op = "Division" /\ ~IsFloat(a) /\ ~IsFloat(b)
         /\ RatAbove(RatAbs(RatDiv(a.number, b.number)), FloatMax) -> "OverflowError"
    [] OTHER -> "none"

\* A variant of compute() whose zero-divisor branch forgets
\* "self._result = None".
ComputeZeroKeepsResult ==
  /\ pc = "compute"
  /\ computeCalls' = computeCalls + 1
  /\ pc' = "release2"
  /\ LET exc == ComputeRaises(name, number1, number2) IN
       IF exc # "none"
         THEN /\ raised' = exc
              /\ UNCHANGED <<result, validation_state, validation_message>>
         ELSE /\ UNCHANGED raised
              /\ IF ZeroDivisor(name, number2)
                   THEN /\ validation_state' = "error"
                        /\ validation_message' = "Division by zero error"
                        /\ UNCHANGED result
                   ELSE /\ result' = DecimalData(Arith(name, number1.number, number2.number))
                        /\ IF name = "Division"
                             THEN /\ validation_state' = "valid"
                                  /\ validation_message' = ""
                             ELSE UNCHANGED <<validation_state, validation_message>>
  /\ UNCHANGED exceptNode
  /\ UNCHANGED <<name, number1, number2, held, caller, emitted, lastPort, repeat,
                 prevOut>>

\* A variant of compute() that adds the new value to the stored result
\* instead of replacing it.
ComputeAccumulates ==
  /\ pc = "compute"
  /\ computeCalls' = computeCalls + 1
  /\ pc' = "release2"
  /\ LET exc == ComputeRaises(name, number1, number2) IN
       IF exc # "none"
         THEN /\ raised' = exc
              /\ UNCHANGED <<result, validation_state, validation_message>>
         ELSE /\ UNCHANGED raised
              /\ IF ZeroDivisor(name, number2)
                   THEN /\ validation_state' = "error"
                        /\ validation_message' = "Division by zero error"
                        /\ result' = None
                   ELSE /\ result' =
                             DecimalData(RatAdd(
                               IF result = None THEN <<0, 1>> ELSE result.number,
                               Arith(name, number1.number, number2.number)))
                        /\ IF name = "Division"
                             THEN /\ validation_state' = "valid"
                                  /\ validation_message' = ""
                             ELSE UNCHANGED <<validation_state, validation_message>>
  /\ UNCHANGED exceptNode
  /\ UNCHANGED <<name, number1, number2, held, caller, emitted, lastPort, repeat,
                 prevOut>>

\* A variant of compute() whose Modulo clears the result on a zero divisor
\* and leaves the validation state and message alone.
ComputeModuloStaysValid ==
  /\ pc = "compute"
  /\ computeCalls' = computeCalls + 1
  /\ pc' = "release2"
  /\ LET exc == ComputeRaises(name, number1, number2) IN
       IF exc # "none"
         THEN /\ raised' = exc
              /\ UNCHANGED <<result, validation_state, validation_message>>
         ELSE /\ UNCHANGED raised
              /\ IF ZeroDivisor(name, number2)
                   THEN /\ result' = None
                        /\ IF name = "Modulo"
                             THEN UNCHANGED <<validation_state, validation_message>>
                             ELSE /\ validation_state' = "error"
                                  /\ validation_message' = "Division by zero error"
                   ELSE /\ result' = DecimalData(Arith(name, number1.number, number2.number))
                        /\ IF name = "Division"
                             THEN /\ validation_state' = "valid"
                                  /\ validation_message' = ""
                             ELSE UNCHANGED <<validation_state, validation_message>>
  /\ UNCHANGED exceptNode
  /\ UNCHANGED <<name, number1, number2, held, caller, emitted, lastPort, repeat,
                 prevOut>>

\* compute(), run inside the scope of _compute_lock.
Compute ==
  /\ pc = "compute"
  /\ computeCalls' = computeCalls + 1
  /\ pc' = "release2"
  /\ LET exc == ComputeRaises(name, number1, number2) IN
       IF exc # "none"
         THEN /\ raised' = exc
              /\ UNCHANGED <<result, validation_state, validation_message>>
         ELSE /\ UNCHANGED raised
              /\ IF ZeroDivisor(name, number2)
                   THEN /\ validation_state' = "error"
                        /\ validation_message' = "Division by zero error"
                        /\ result' = None
                   ELSE /\ result' = DecimalData(Arith(name, number1.number, number2.number))
                        /\ IF name = "Division"
                             THEN /\ validation_state' = "valid"
                                  /\ validation_message' = ""
                             ELSE UNCHANGED <<validation_state, validation_message>>
  /\ UNCHANGED exceptNode
  /\ UNCHANGED <<name, number1, number2, held, caller, emitted, lastPort, repeat,
                 prevOut>>

\* Leaving "with self._number1.lock, self._number2.lock": number2's lock is
\* released first, with or without an exception in flight.
ReleaseSecond ==
  /\ pc = "release2"
  /\ held' = [held EXCEPT ![number2] = @ - 1]
  /\ pc' = "release1"
  /\ UNCHANGED exceptNode
  /\ UNCHANGED <<name, number1, number2, result, validation_state,
                 validation_message, caller, emitted, raised, computeCalls,
                 lastPort, repeat, prevOut>>

\* A variant that releases number1's lock on the normal path only, as a
\* release() placed after the body without try/finally would.
ReleaseFirstUnlessRaised ==
  /\ pc = "release1"
  /\ held' = IF raised # "none" THEN held ELSE [held EXCEPT ![number1] = @ - 1]
  /\ pc' = IF raised # "none" THEN "idle" ELSE "emit"
  /\ UNCHANGED exceptNode
  /\ UNCHANGED <<name, number1, number2, result, validation_state,
                 validation_message, caller, emitted, raised, computeCalls,
                 lastPort, repeat, prevOut>>

\* ... then number1's lock; an exception in flight leaves the call here.
ReleaseFirst ==
  /\ pc = "release1"
  /\ held' = [held EXCEPT ![number1] = @ - 1]
  /\ pc' = IF raised # "none" THEN "idle" ELSE "emit"
  /\ UNCHANGED exceptNode
  /\ UNCHANGED <<name, number1, number2, result, validation_state,
                 validation_message, caller, emitted, raised, computeCalls,
                 lastPort, repeat, prevOut>>

\* _compute_lock(), after the with block: data_updated.emit(0).
EmitUpdated ==
  /\ pc = "emit"
  /\ emitted' = Append(emitted, Emission("data_updated"))
  /\ pc' = "idle"
  /\ UNCHANGED exceptNode
  /\ UNCHANGED <<name, number1, number2, result, validation_state,
                 validation_message, held, caller, raised, computeCalls,
                 lastPort, repeat, prevOut>>

\* "with self._compute_lock(): self.compute()" entered by a caller other than
\* set_in_data, without the gate of _check_inputs.
EnterComputeScope ==
  /\ pc = "idle"
  /\ BeginCall("direct")
  /\ repeat' = FALSE
  /\ lastPort' = <<>>
  /\ pc' = "lock"
  /\ UNCHANGED exceptNode
  /\ UNCHANGED <<name, number1, number2, result, validation_state,
                 validation_message, held>>

\* The statements of a call once it is entered.
Step ==
  \/ CheckInputs
  \/ ComputeLockEnter
  \/ ComputeLockSecond
  \/ Compute
  \/ ReleaseSecond
  \/ ReleaseFirst
  \/ EmitUpdated

\* The engine pushes an envelope, or None, to an input port.
Push ==
  \E data \in Pool \cup {None}, port \in InPorts :
    SetInData(data, port) /\ UNCHANGED twinVars

\* The engine pushes an integer beyond the float range.
PushHuge == \E port \in InPorts : SetInData(HugeInt, port) /\ UNCHANGED twinVars

\* ------------------------------------------- two nodes fed the same calls
\* The kind and the fields of the node the node variables describe, with
\* the record of its latest call.
NodeState ==
  [name |-> name, number1 |-> number1, number2 |-> number2, result |-> result,
   validation_state |-> validation_state, validation_message |-> validation_message,
   caller |-> caller, emitted |-> emitted, raised |-> raised,
   computeCalls |-> computeCalls, lastPort |-> lastPort, repeat |-> repeat,
   prevOut |-> prevOut]

\* ModuloModel(): the second node as constructed.
InitTwin ==
  /\ twin = [name |-> "Modulo", number1 |-> None, number2 |-> None, result |-> None,
             validation_state |-> "warning", validation_message |-> "Uninitialized",
             caller |-> "none", emitted |-> <<>>, raised |-> "none",
             computeCalls |-> 0, lastPort |-> <<>>, repeat |-> FALSE,
             prevOut |-> [out |-> None, state |-> "warning", message |-> "Uninitialized"]]
  /\ pending = <<None, 0>>
  /\ phase = "synced"

\* The engine pushes an envelope, or None, to an input port of one node; the
\* other node is still to receive it.
DeliverFirst ==
  /\ phase \in {"synced", "second"}
  /\ \E data \in Pool \cup {None}, port \in InPorts :
       /\ SetInData(data, port)
       /\ pending' = <<data, port>>
  /\ phase' = "first"
  /\ UNCHANGED twin

\* The call has ended; the node variables now describe the other node.
SwitchNode ==
  /\ phase = "first"
  /\ pc = "idle"
  /\ twin' = NodeState
  /\ name' = twin.name
  /\ number1' = twin.number1
  /\ number2' = twin.number2
  /\ result' = twin.result
  /\ validation_state' = twin.validation_state
  /\ validation_message' = twin.validation_message
  /\ caller' = twin.caller
  /\ emitted' = twin.emitted
  /\ raised' = twin.raised
  /\ computeCalls' = twin.computeCalls
  /\ lastPort' = twin.lastPort
  /\ repeat' = twin.repeat
  /\ prevOut' = twin.prevOut
  /\ phase' = "switched"
  /\ UNCHANGED <<pc, held, pending>>
  /\ UNCHANGED exceptCall

\* The engine pushes the same envelope to the same port of the other node.
DeliverSecond ==
  /\ phase = "switched"
  /\ SetInData(pending[1], pending[2])
  /\ phase' = "second"
  /\ UNCHANGED <<twin, pending>>

\* ------------------------------------------------- the node-kind verifier
\* PortType.input and PortType.output.
PortTypes == {"input", "output"}

\* PortCount(inputs, outputs), or num_ports defined as a property.
PortCount(i, o) == [dynamic |-> FALSE, inputs |-> i, outputs |-> o]
DynamicPorts == [dynamic |-> TRUE, inputs |-> 0, outputs |-> 0]

\* PortCount.__getitem__
Count(num_ports, port_type) ==
  IF port_type = "input" THEN num_ports.inputs ELSE num_ports.outputs

\* A dict keyed by port index, or its absence (None, or a missing key).
NoMap == [given |-> FALSE, map |-> [i \in {} |-> 0]]
Given(m) == [given |-> TRUE, map |-> m]

\* range(n)
Range(n) == 0..(n - 1)

\* The index dicts a kind's author writes: the keys 0..k-1, one value.
KeySets == {Range(k) : k \in 0..(MaxPorts + 1)}
Maps(value) == {[i \in K |-> value] : K \in KeySets}
OptMaps(value) == {NoMap} \cup {Given(m) : m \in Maps(value)}

\* An attribute that holds a dict keyed by PortType, a single value, or is
\* unset (None, or not there at all).
UnsetAttr == [is |-> "unset", scalar |-> FALSE, dict |-> [input |-> NoMap, output |-> NoMap]]
ScalarAttr(b) == [is |-> "scalar", scalar |-> b, dict |-> [input |-> NoMap, output |-> NoMap]]
DictAttr(d) == [is |-> "dict", scalar |-> FALSE, dict |-> d]

\* CaptionOverride(inputs, outputs), or None.
NoCaptionOverride == [given |-> FALSE, inputs |-> NoMap, outputs |-> NoMap]
CaptionOverride(ins, outs) == [given |-> TRUE, inputs |-> ins, outputs |-> outs]

\* DataTypes(inputs, outputs), or None.
NoDataTypes == [given |-> FALSE, inputs |-> NoMap.map, outputs |-> NoMap.map]
DataTypes(ins, outs) == [given |-> TRUE, inputs |-> ins, outputs |-> outs]

\* The class attributes of NodeDataModel itself.
NodeDataModel ==
  [num_ports |-> PortCount(1, 1),
   caption_override |-> NoCaptionOverride,
   all_data_types |-> "None",
   data_types |-> NoDataTypes,
   port_caption_visible |-> UnsetAttr,
   port_caption |-> UnsetAttr,
   data_type |-> UnsetAttr,
   verify |-> FALSE,
   own_visible |-> FALSE]

\* new_dict(value): both directions, every index of num_ports.
new_dict(num_ports, value) ==
  [input |-> Given([i \in Range(num_ports.inputs) |-> value]),
   output |-> Given([i \in Range(num_ports.outputs) |-> value])]

\* cls._port_caption: blank captions, a whole direction replaced by the map
\* caption_override gives for it.
ResolveCaptions(cls) ==
  LET blank == new_dict(cls.num_ports, "")
      co == cls.caption_override
  IN  [input |-> IF co.given /\ co.inputs.given THEN co.inputs ELSE blank.input,
       output |-> IF co.given /\ co.outputs.given THEN co.outputs ELSE blank.output]

\* cls._data_type, once exactly one of the two declarations is known to be set.
ResolveDataTypes(cls) ==
  IF cls.data_types.given
    THEN [input |-> Given(cls.data_types.inputs), output |-> Given(cls.data_types.outputs)]
    ELSE new_dict(cls.num_ports, cls.all_data_types)

\* fill_defaults("port_caption_visible", False): a dict is kept as it is; a
\* single value, or False when unset, is spread over new_dict.
fill_defaults(cls) ==
  IF cls.port_caption_visible.is = "dict"
    THEN cls.port_caption_visible.dict
    ELSE new_dict(cls.num_ports,
                  IF cls.port_caption_visible.is = "scalar"
                    THEN cls.port_caption_visible.scalar
                    ELSE FALSE)

\* The check loop writes an empty dict for a missing direction of count zero.
AddEmptyDirections(num_ports, dct) ==
  [pt \in PortTypes |->
     IF ~dct[pt].given /\ Count(num_ports, pt) = 0
       THEN Given([i \in {} |-> 0])
       ELSE dct[pt]]

\* The reasons the check loop collects for one table.
TableReasons(num_ports, attr, dct) ==
  {[what |-> "Port type key missing", attr |-> attr, port_type |-> pt, index |-> 0] :
     pt \in {q \in PortTypes : ~dct[q].given /\ Count(num_ports, q) # 0}}
  \cup
  {[what |-> "Port key missing", attr |-> attr, port_type |-> r[1], index |-> r[2]] :
     r \in {x \in PortTypes \X Range(MaxPorts + 1) :
              /\ dct[x[1]].given
              /\ x[2] \in Range(Count(num_ports, x[1]))
              /\ x[2] \notin DOMAIN dct[x[1]].map}}

\* A variant of _verify without the test for both declarations.
BothTypesUnchecked(cls) == FALSE

\* The two data-type declarations contradict each other.
BothTypes(cls) == cls.all_data_types # "None" /\ cls.data_types.given
\* The assert on "all_types or data_types" fails.
NeitherType(cls) == cls.all_data_types = "None" /\ ~cls.data_types.given

\* cls._verify(): the class as it leaves the method, the exception raised
\* ("none" when the kind is verified) and the reasons of the aggregated error.
verify(cls) ==
  IF cls.num_ports.dynamic
    THEN [cls |-> cls, raises |-> "none", reasons |-> {}]
    ELSE
      LET c1 == [cls EXCEPT !.port_caption = DictAttr(ResolveCaptions(cls))] IN
      IF BothTypes(c1)
        THEN [cls |-> c1, raises |-> "ValueError", reasons |-> {}]
      ELSE IF NeitherType(c1)
        THEN [cls |-> c1, raises |-> "AssertionError", reasons |-> {}]
      ELSE
        LET np == c1.num_ports
            dt == ResolveDataTypes(c1)
            pc0 == c1.port_caption.dict
            vis == fill_defaults(c1)
            found ==
              TableReasons(np, "_data_type", dt)
                \cup TableReasons(np, "_port_caption", pc0)
                \cup TableReasons(np, "port_caption_visible", vis)
            c2 == [c1 EXCEPT
                     !.data_type = DictAttr(AddEmptyDirections(np, dt)),
                     !.port_caption = DictAttr(AddEmptyDirections(np, pc0)),
                     !.port_caption_visible = DictAttr(AddEmptyDirections(np, vis))]
        IN  [cls |-> c2,
             raises |-> IF found # {} THEN "ValueError" ELSE "none",
             reasons |-> found]

\* What a class statement declares: num_ports, the verify keyword, and at
\* most one of caption_override, the two data-type attributes, and
\* port_caption_visible; the attributes it leaves out are inherited.
PortCounts ==
  {PortCount(i, o) : i \in 0..MaxPorts, o \in 0..MaxPorts} \cup {DynamicPorts}

CaptionOverrides ==
  {NoCaptionOverride}
    \cup {CaptionOverride(a, b) : a \in OptMaps("caption"), b \in OptMaps("caption")}

TypeDeclarations ==
  {[all_data_types |-> a, data_types |-> d] :
     a \in {"None", "decimal"},
     d \in {NoDataTypes}
             \cup {DataTypes(x, y) : x \in Maps("decimal"), y \in Maps("decimal")}}

VisibleDeclarations ==
  {ScalarAttr(TRUE)}
    \cup {DictAttr([input |-> a, output |-> b]) : a \in OptMaps(TRUE), b \in OptMaps(TRUE)}

Declarations ==
  {[group |-> "none", value |-> NoCaptionOverride]}
    \cup {[group |-> "caption", value |-> v] : v \in CaptionOverrides}
    \cup {[group |-> "types", value |-> v] : v \in TypeDeclarations}
    \cup {[group |-> "visible", value |-> v] : v \in VisibleDeclarations}

\* The class object a class statement builds: the declared attributes, the
\* rest looked up on the base class.
Subclass(base, num_ports, decl, verify_kw) ==
  [base EXCEPT
     !.num_ports = num_ports,
     !.caption_override = IF decl.group = "caption" THEN decl.value ELSE @,
     !.all_data_types = IF decl.group = "types" THEN decl.value.all_data_types ELSE @,
     !.data_types = IF decl.group = "types" THEN decl.value.data_types ELSE @,
     !.port_caption_visible = IF decl.group = "visible" THEN decl.value ELSE @,
     !.verify = verify_kw,
     !.own_visible = (decl.group = "visible")]

\* __init_subclass__(verify=...): kinds with a dynamic num_ports and kinds
\* defined with verify=False are not verified.
init_subclass(cls) ==
  IF cls.num_ports.dynamic \/ ~cls.verify
    THEN [cls |-> cls, raises |-> "none", reasons |-> {}]
    ELSE verify(cls)

InitVerifier ==
  /\ parent = NodeDataModel
  /\ kind = NodeDataModel
  /\ outcome = "none"
  /\ reasons = {}
  /\ depth = 0

\* The base class after the class statement: a port_caption_visible dict the
\* new class inherited is the base's own object, so directions written into
\* it by the check loop show on the base too.
BaseAfter(base, cls, after) ==
  IF ~cls.own_visible /\ base.port_caption_visible.is = "dict"
       /\ after.port_caption_visible.is = "dict"
    THEN [base EXCEPT !.port_caption_visible = after.port_caption_visible]
    ELSE base

\* class X(base, verify=verify_kw): ... ; the statement raises what
\* __init_subclass__ raises.
ClassStatement(base, num_ports, decl, verify_kw) ==
  LET cls == Subclass(base, num_ports, decl, verify_kw)
      r == init_subclass(cls)
  IN  /\ parent' = BaseAfter(base, cls, r.cls)
      /\ kind' = r.cls
      /\ outcome' = IF r.raises = "none" THEN "created" ELSE r.raises
      /\ reasons' = r.reasons
      /\ depth' = depth + 1

\* A kind defined directly on NodeDataModel.
DefineKind ==
  /\ depth = 0
  /\ \E np \in PortCounts, decl \in Declarations, v \in BOOLEAN :
       ClassStatement(NodeDataModel, np, decl, v)
  /\ UNCHANGED exceptVerifier

\* A kind derived from the kind defined before it.
DeriveKind ==
  /\ depth = 1
  /\ outcome = "created"
  /\ \E np \in PortCounts, decl \in Declarations, v \in BOOLEAN :
       ClassStatement(kind, np, decl, v)
  /\ UNCHANGED exceptVerifier

\* ------------------------------------------------------ the NodeData kinds
\* NodeDataType(id, name); Python's None, as a value of the same shape, for
\* a data_type attribute set to None.
NodeDataType(id, nm) == [none |-> FALSE, id |-> id, name |-> nm]
NoDataType == [none |-> TRUE, id |-> "None", name |-> "None"]

\* The ids and display names of the declared types ("None" is None).
TypeIds == {"None", "decimal", "integer"}
TypeNames == {"None", "Decimal", "Number"}
NodeDataTypes == {NodeDataType(i, n) : i \in TypeIds, n \in TypeNames}

\* NodeData.data_type, which a subclass inherits unless it sets its own.
NodeData == NodeDataType("None", "None")

\* No instance yet.
NoInstance == [made |-> FALSE, data_type |-> NodeData]
\* An instance of a NodeData kind: data_type is looked up on its class.
Instance(data_type) == [made |-> TRUE, data_type |-> data_type]

\* NodeData.__init_subclass__: "cls.data_type is None".
UnsetDataType(data_type) == data_type.none

\* A variant of same_type that compares the whole NodeDataType tuples.
same_type_by_tuple(self, other) == self.data_type = other.data_type

\* NodeData.same_type(other)
same_type(self, other) == self.data_type.id = other.data_type.id

InitData ==
  /\ data_kind = NodeData
  /\ declared = FALSE
  /\ data_outcome = "none"
  /\ dataX = NoInstance
  /\ dataY = NoInstance
  /\ same = [called |-> FALSE, xy |-> FALSE, yx |-> FALSE, xx |-> FALSE, yy |-> FALSE]

\* class K(NodeData): with or without a data_type in its body; the statement
\* raises what __init_subclass__ raises.
DefineData ==
  /\ \E own \in BOOLEAN, dt \in NodeDataTypes \cup {NoDataType} :
       /\ ~own => dt = NodeData
       /\ declared' = own
       /\ data_kind' = dt
       /\ data_outcome' = IF UnsetDataType(dt) THEN "ValueError" ELSE "created"
  /\ UNCHANGED <<dataX, dataY, same>>
  /\ UNCHANGED exceptData

\* K(): an instance of the kind defined last, kept as dataX or as dataY.
Instantiate ==
  /\ data_outcome = "created"
  /\ \E slot \in {"x", "y"} :
       /\ dataX' = IF slot = "x" THEN Instance(data_kind) ELSE dataX
       /\ dataY' = IF slot = "y" THEN Instance(data_kind) ELSE dataY
  /\ same' = [same EXCEPT !.called = FALSE]
  /\ UNCHANGED <<data_kind, declared, data_outcome>>
  /\ UNCHANGED exceptData

\* x.same_type(y), y.same_type(x), x.same_type(x), y.same_type(y)
SameType ==
  /\ dataX.made
  /\ dataY.made
  /\ same' = [called |-> TRUE, xy |-> same_type(dataX, dataY), yx |-> same_type(dataY, dataX),
               xx |-> same_type(dataX, dataX), yy |-> same_type(dataY, dataY)]
  /\ UNCHANGED <<data_kind, declared, data_outcome, dataX, dataY>>
  /\ UNCHANGED exceptData

\* ----------------------------------------------------------------- texts
\* A text is a sequence of one-character strings.
Digits == <<"0", "1", "2", "3", "4", "5", "6", "7", "8", "9">>
IsDigit(c) == \E d \in 1..10 : Digits[d] = c
DigitValue(c) == (CHOOSE d \in 1..10 : Digits[d] = c) - 1

RECURSIVE Pow10(_)
Pow10(k) == IF k <= 0 THEN 1 ELSE 10 * Pow10(k - 1)

\* The value of a sequence of digits.
RECURSIVE DigitsValue(_)
DigitsValue(t) ==
  IF t = <<>> THEN 0
  ELSE 10 * DigitsValue(SubSeq(t, 1, Len(t) - 1)) + DigitValue(t[Len(t)])

AllDigits(t) == \A i \in 1..Len(t) : IsDigit(t[i])

\* The text without its sign.
Unsigned(t) == IF t # <<>> /\ t[1] = "-" THEN Tail(t) ELSE t

\* Where the decimal point of an unsigned text stands (0: there is none).
PointAt(u) ==
  IF \E i \in 1..Len(u) : u[i] = "." THEN CHOOSE i \in 1..Len(u) : u[i] = "." ELSE 0

\* float(text) succeeds: an optional sign, digits with at most one decimal
\* point, at least one digit.
Parses(t) ==
  LET u == Unsigned(t)
      p == PointAt(u)
      whole == IF p = 0 THEN u ELSE SubSeq(u, 1, p - 1)
      part == IF p = 0 THEN <<>> ELSE SubSeq(u, p + 1, Len(u))
  IN  /\ AllDigits(whole)
      /\ AllDigits(part)
      /\ Len(whole) + Len(part) > 0

\* float(text) for a text that parses.
Parse(t) ==
  LET u == Unsigned(t)
      p == PointAt(u)
      whole == IF p = 0 THEN u ELSE SubSeq(u, 1, p - 1)
      part == IF p = 0 THEN <<>> ELSE SubSeq(u, p + 1, Len(u))
      magnitude == Rat(DigitsValue(whole) * Pow10(Len(part)) + DigitsValue(part),
                       Pow10(Len(part)))
  IN  IF t # <<>> /\ t[1] = "-" THEN <<0 - magnitude[1], magnitude[2]>> ELSE magnitude

\* The digits of n, at least width of them.
RECURSIVE DigitsOf(_, _)
DigitsOf(n, width) ==
  IF n < 10 /\ width <= 1 THEN <<Digits[n + 1]>>
  ELSE Append(DigitsOf(n \div 10, width - 1), Digits[(n % 10) + 1])

\* The text without trailing zeros.
RECURSIVE StripZeros(_)
StripZeros(t) ==
  IF t # <<>> /\ t[Len(t)] = "0" THEN StripZeros(SubSeq(t, 1, Len(t) - 1)) ELSE t

\* The number of significant digits of "%g".
Precision == 6

\* The decimal exponent X of q > 0: 10^X <= q < 10^(X+1).
RECURSIVE ExponentOfWhole(_)
ExponentOfWhole(m) == IF m < 10 THEN 0 ELSE 1 + ExponentOfWhole(m \div 10)

RECURSIVE ExponentOfPart(_, _)
ExponentOfPart(n, d) == IF n >= d THEN 0 ELSE ExponentOfPart(10 * n, d) - 1

Exponent10(q) ==
  IF q[1] >= q[2] THEN ExponentOfWhole(q[1] \div q[2]) ELSE ExponentOfPart(q[1], q[2])

\* Long division: <<f, r>> with f + r / d the value of whole + rem / d
\* multiplied by 10^k (0 <= r < d), one decimal digit at a time.
RECURSIVE ScaledDivision(_, _, _, _)
ScaledDivision(whole, rem, d, k) ==
  IF k <= 0 THEN <<whole, rem>>
  ELSE ScaledDivision(10 * whole + (10 * rem) \div d, (10 * rem) % d, d, k - 1)

\* f + r / d rounded to the nearest integer, halves to the even one.
RoundHalfEven(f, r, d) ==
  IF 2 * r > d \/ (2 * r = d /\ f % 2 = 1) THEN f + 1 ELSE f

\* "%g" % q for 0.0001 <= q < 999999.5, which "%g" prints without an
\* exponent: Precision significant digits, trailing zeros and a trailing
\* point removed.
FormatPositive(q) ==
  LET X0 == Exponent10(q)
      scaled == ScaledDivision(q[1] \div q[2], q[1] % q[2], q[2], Precision - 1 - X0)
      N0 == RoundHalfEven(scaled[1], scaled[2], q[2])
      carried == N0 = Pow10(Precision)
      X == IF carried THEN X0 + 1 ELSE X0
      N == IF carried THEN Pow10(Precision - 1) ELSE N0
      D == Precision - 1 - X
      whole == DigitsOf(N \div Pow10(D), 1)
      part == IF D > 0 THEN StripZeros(DigitsOf(N % Pow10(D), D)) ELSE <<>>
  IN  IF part = <<>> THEN whole ELSE whole \o <<".">> \o part

\* DecimalData.number_as_text(): "%g" % self._number
number_as_text(q) ==
  IF q[1] = 0 THEN <<"0">>
  ELSE IF q[1] < 0 THEN <<"-">> \o FormatPositive(<<0 - q[1], q[2]>>)
  ELSE FormatPositive(q)

\* ------------------------------------------- converters and connections
\* The type ids a port can declare.
PortTypeIds == {"decimal", "integer", "text"}

\* int(): truncation toward zero.
Trunc(q) == IF q[1] < 0 THEN 0 - ((0 - q[1]) \div q[2]) ELSE q[1] \div q[2]

\* A variant of integer_to_decimal_converter that hands the envelope on as
\* it came.
integer_to_decimal_unconverted(data) == data

\* integer_to_decimal_converter(data): DecimalData(float(data.number))
integer_to_decimal_converter(data) == DecimalData(data.number)

\* decimal_to_integer_converter(data): IntegerData(int(data.number))
decimal_to_integer_converter(data) == IntegerData(<<Trunc(data.number), 1>>)

\* The two TypeConverter objects of main(): source id, target id, function.
Converters ==
  {[source |-> "decimal", target |-> "integer", fn |-> "decimal_to_integer_converter"],
   [source |-> "integer", target |-> "decimal", fn |-> "integer_to_decimal_converter"]}

\* Calling a registered conversion function.
Convert(fn, data) ==
  IF fn = "integer_to_decimal_converter"
    THEN integer_to_decimal_converter(data)
    ELSE decimal_to_integer_converter(data)

\* float() of an int beyond the float range raises OverflowError.
ConvertRaises(fn, data) ==
  fn = "integer_to_decimal_converter" /\ FloatOverflows(data)

\* The envelopes an upstream output port hands over: integers, decimals by
\* halves of either sign, an integer beyond the float range, a text.
Outputs ==
  {IntegerData(<<n, 1>>) : n \in (0 - MaxNum)..MaxNum}
    \cup {DecimalData(Rat(n, 2)) : n \in (0 - 2 * MaxNum)..(2 * MaxNum)}
    \cup {HugeInt, TextData}

InitConnect ==
  /\ registry = [p \in PortTypeIds \X PortTypeIds |-> "absent"]
  /\ connection = [status |-> "none", source |-> "text", target |-> "text", data |-> None]
  /\ delivered = <<>>

\* registry.register_type_converter(source, target, converter)
RegisterConverter ==
  /\ \E c \in Converters : registry' = [registry EXCEPT ![<<c.source, c.target>>] = c.fn]
  /\ UNCHANGED <<connection, delivered>>
  /\ UNCHANGED exceptConnect

\* An output port of type id source is wired to an input port of type id
\* target and the upstream envelope is pushed: equal ids pass the envelope on,
\* differing ids go through the converter registered for the pair, and
\* without one the connection is refused.
Connect(data, target) ==
  LET source == data_type_id(data)
      fn == registry[<<source, target>>]
      attempt == [status |-> "connected", source |-> source, target |-> target, data |-> data]
  IN  /\ IF source = target
           THEN /\ connection' = attempt
                /\ delivered' = <<data>>
           ELSE IF fn = "absent"
             THEN /\ connection' = [attempt EXCEPT !.status = "refused"]
                  /\ delivered' = <<>>
           ELSE IF ConvertRaises(fn, data)
             THEN /\ connection' = [attempt EXCEPT !.status = "OverflowError"]
                  /\ delivered' = <<>>
             ELSE /\ connection' = attempt
                  /\ delivered' = <<Convert(fn, data)>>
      /\ UNCHANGED registry
      /\ UNCHANGED exceptConnect

ConnectPorts == \E data \in Outputs, target \in PortTypeIds : Connect(data, target)

\* ------------------------------------------------- the NumberSource node
\* NodeDataModel.validation_state() and validation_message(), which
\* NumberSourceDataModel and NumberDisplayModel inherit.
NodeDataModel_validation_state == "valid"
NodeDataModel_validation_message == ""

\* The characters typed into the line edit, and the texts made of them.
Keys == {"1", ".", "-", "x"}
Texts == UNION {[1..n -> Keys] : n \in 0..MaxLen}

\* The documents given to restore(): no "number" key, or a "number" that is
\* null, a list, a number or a string.
NoKey == [has |-> "nothing", number |-> <<0, 1>>, text |-> <<>>]
JsonNull == [has |-> "null", number |-> <<0, 1>>, text |-> <<>>]
JsonList == [has |-> "list", number |-> <<0, 1>>, text |-> <<>>]
JsonNumber(q) == [has |-> "number", number |-> q, text |-> <<>>]
JsonString(t) == [has |-> "string", number |-> <<0, 1>>, text |-> t]

\* The numbers of the documents: 0, 1, -1/2, 1/3 and 123456.5.
SavedNumbers == {<<0, 1>>, <<1, 1>>, <<0 - 1, 2>>, <<1, 3>>, <<1234565, 10>>}

States ==
  {NoKey, JsonNull, JsonList}
    \cup {JsonNumber(q) : q \in SavedNumbers}
    \cup {JsonString(t) : t \in Texts}

\* float(state["number"]) returns a value: a number, or a string that parses.
Floatable(state) ==
  \/ state.has = "number"
  \/ state.has = "string" /\ Parses(state.text)

\* ... and the value it returns.
FloatOf(state) == IF state.has = "number" THEN state.number ELSE Parse(state.text)

InitSource ==
  /\ source_number = DecimalData(<<0, 1>>)
  /\ line_edit = <<"0", ".", "0">>
  /\ source_call = [op |-> "none", has |-> "nothing", floatable |-> FALSE]
  /\ source_emitted = <<>>
  /\ source_raised = "none"
  /\ source_kept = TRUE
  /\ source_saved = NoKey
  /\ source_fresh = TRUE
  /\ source_loaded = FALSE

\* A call that is not the loading of a saved node: nothing is saved by it,
\* and the node is no longer as constructed.
NotLoading ==
  /\ source_fresh' = FALSE
  /\ source_loaded' = FALSE
  /\ UNCHANGED source_saved

\* on_text_edited(string), run by textChanged: the text of the line edit is
\* parsed; a number is stored and announced, a ValueError is answered by
\* data_invalidated.emit(0).
on_text_edited ==
  IF Parses(line_edit')
    THEN /\ source_number' = DecimalData(Parse(line_edit'))
         /\ source_emitted' = <<"data_updated">>
    ELSE /\ source_number' = source_number
         /\ source_emitted' = <<"data_invalidated">>

\* The user changes the text of the line edit.
EditText ==
  /\ \E text \in Texts :
       /\ text # line_edit
       /\ line_edit' = text
       /\ source_call' = [op |-> "on_text_edited", has |-> "string", floatable |-> Parses(text)]
  /\ on_text_edited
  /\ source_raised' = "none"
  /\ source_kept' = (source_number' = source_number)
  /\ NotLoading
  /\ UNCHANGED exceptSource

\* A variant of restore() that forgets the number when the document has none.
RestoreForgets(state) ==
  /\ source_call' = [op |-> "restore", has |-> state.has, floatable |-> Floatable(state)]
  /\ source_raised' = "none"
  /\ IF ~Floatable(state)
       THEN /\ source_number' = None
            /\ UNCHANGED <<line_edit, source_emitted>>
       ELSE LET text == number_as_text(FloatOf(state)) IN
              /\ line_edit' = text
              /\ IF text # line_edit
                   THEN on_text_edited
                   ELSE /\ source_number' = DecimalData(FloatOf(state))
                        /\ source_emitted' = <<>>
  /\ source_kept' = (source_number' = source_number)
  /\ UNCHANGED exceptSource

\* restore(state): any exception of float(state["number"]) is swallowed;
\* otherwise the number is stored and written to the line edit, whose
\* textChanged (emitted when the text differs) runs on_text_edited.
Restore(state) ==
  /\ source_call' = [op |-> "restore", has |-> state.has, floatable |-> Floatable(state)]
  /\ source_raised' = "none"
  /\ IF ~Floatable(state)
       THEN /\ UNCHANGED <<source_number, line_edit>>
            /\ source_emitted' = <<>>
       ELSE LET text == number_as_text(FloatOf(state)) IN
              /\ line_edit' = text
              /\ IF text # line_edit
                   THEN on_text_edited
                   ELSE /\ source_number' = DecimalData(FloatOf(state))
                        /\ source_emitted' = <<>>
  /\ source_kept' = (source_number' = source_number)
  /\ UNCHANGED exceptSource

RestoreState == \E state \in States : Restore(state) /\ NotLoading

\* save(): NodeDataModel.save() returns {}, to which the number is added
\* when self._number is set.
save ==
  IF source_number # None THEN JsonNumber(source_number.number) ELSE NoKey

\* The scene saves the node: the dict is kept, the node is left alone.
SaveNode ==
  /\ source_saved' = save
  /\ source_loaded' = FALSE
  /\ UNCHANGED <<source_fresh, sourceVars>>
  /\ UNCHANGED exceptSource

\* NumberSourceDataModel(): a node is constructed; its constructor ends with
\* setText("0.0"), whose textChanged runs on_text_edited.
NewNode ==
  /\ source_number' = DecimalData(<<0, 1>>)
  /\ line_edit' = <<"0", ".", "0">>
  /\ source_call' = [op |-> "none", has |-> "nothing", floatable |-> FALSE]
  /\ source_emitted' = <<>>
  /\ source_raised' = "none"
  /\ source_kept' = TRUE
  /\ source_fresh' = TRUE
  /\ source_loaded' = FALSE
  /\ UNCHANGED source_saved
  /\ UNCHANGED exceptSource

\* The scene loads the saved node: restore() of the saved dict on a node
\* that was just constructed.
LoadSaved ==
  /\ source_fresh
  /\ source_saved.has = "number"
  /\ Restore(source_saved)
  /\ source_loaded' = TRUE
  /\ source_fresh' = FALSE
  /\ UNCHANGED source_saved

\* ------------------------------------------------ the NumberDisplay node
\* str(n) of an int.
str(n) == IF n < 0 THEN <<"-">> \o DigitsOf(0 - n, 1) ELSE DigitsOf(n, 1)

\* number_as_text() of a DecimalData or an IntegerData.
NumberText(e) == IF IsFloat(e) THEN number_as_text(e.number) ELSE str(e.number[1])

InitDisplay ==
  /\ display_number = None
  /\ label = <<>>
  /\ display_validation_state = "warning"
  /\ display_validation_message = "Uninitialized"
  /\ display_calls = 0

\* NumberDisplayModel.set_in_data(data, port)
DisplaySetInData(data) ==
  /\ display_number' = data
  /\ IF number_ok(data)
       THEN /\ display_validation_state' = "valid"
            /\ display_validation_message' = ""
            /\ label' = NumberText(data)
       ELSE /\ display_validation_state' = "warning"
            /\ display_validation_message' = "Missing or incorrect inputs"
            /\ label' = <<>>
  /\ display_calls' = IF display_calls < MaxCalls THEN display_calls + 1 ELSE display_calls
  /\ UNCHANGED exceptDisplay

\* The engine pushes an envelope, or None, to the display.
DisplayPush == \E data \in Outputs \cup {None} : DisplaySetInData(data)

\* ------------------------------------- two nodes computed by two threads
\* Each thread runs the locked part of set_in_data on an Addition node of its
\* own; the nodes' inputs are envelopes that upstream outputs fan out to both.
Threads == {1, 2}

\* The envelopes wired to the two nodes.
Shared == {DecimalData(<<n, 1>>) : n \in Nums}

\* A thread can take an RLock that is free or its own.
CanAcquire(t, e) == lock_owner[e] \in {0, t}

InitThreads ==
  /\ thread_number1 = [t \in Threads |-> DecimalData(<<0, 1>>)]
  /\ thread_number2 = [t \in Threads |-> DecimalData(<<0, 1>>)]
  /\ thread_pc = [t \in Threads |-> "unwired"]
  /\ thread_result = [t \in Threads |-> None]
  /\ lock_owner = [e \in Shared |-> 0]
  /\ lock_count = [e \in Shared |-> 0]

\* The scene wires envelopes to the two inputs of both nodes; both nodes have
\* passed _check_inputs and stand before _compute_lock.
Wire ==
  /\ \A t \in Threads : thread_pc[t] = "unwired"
  /\ thread_number1' \in [Threads -> Shared]
  /\ thread_number2' \in [Threads -> Shared]
  /\ thread_pc' = [t \in Threads |-> "lock"]
  /\ UNCHANGED <<thread_result, lock_owner, lock_count>>
  /\ UNCHANGED exceptThreads

\* RLock.acquire() by thread t: blocks while another thread owns the lock.
Acquire(t, e) ==
  /\ CanAcquire(t, e)
  /\ lock_owner' = [lock_owner EXCEPT ![e] = t]
  /\ lock_count' = [lock_count EXCEPT ![e] = @ + 1]

\* RLock.release()
Release(e) ==
  /\ lock_count' = [lock_count EXCEPT ![e] = @ - 1]
  /\ lock_owner' = [lock_owner EXCEPT ![e] = IF lock_count[e] = 1 THEN 0 ELSE @]

\* "with self._number1.lock, self._number2.lock": number1's lock first.
ThreadLockFirst(t) ==
  /\ thread_pc[t] = "lock"
  /\ Acquire(t, thread_number1[t])
  /\ thread_pc' = [thread_pc EXCEPT ![t] = "lock2"]
  /\ UNCHANGED <<thread_number1, thread_number2, thread_result>>
  /\ UNCHANGED exceptThreads

\* ... then number2's lock.
ThreadLockSecond(t) ==
  /\ thread_pc[t] = "lock2"
  /\ Acquire(t, thread_number2[t])
  /\ thread_pc' = [thread_pc EXCEPT ![t] = "compute"]
  /\ UNCHANGED <<thread_number1, thread_number2, thread_result>>
  /\ UNCHANGED exceptThreads

\* AdditionModel.compute() inside the with block.
ThreadCompute(t) ==
  /\ thread_pc[t] = "compute"
  /\ thread_result' =
       [thread_result EXCEPT
          ![t] = DecimalData(Arith("Addition", thread_number1[t].number,
                                   thread_number2[t].number))]
  /\ thread_pc' = [thread_pc EXCEPT ![t] = "release2"]
  /\ UNCHANGED <<thread_number1, thread_number2, lock_owner, lock_count>>
  /\ UNCHANGED exceptThreads

\* Leaving the with block: number2's lock is released, then number1's.
ThreadReleaseSecond(t) ==
  /\ thread_pc[t] = "release2"
  /\ Release(thread_number2[t])
  /\ thread_pc' = [thread_pc EXCEPT ![t] = "release1"]
  /\ UNCHANGED <<thread_number1, thread_number2, thread_result>>
  /\ UNCHANGED exceptThreads

ThreadReleaseFirst(t) ==
  /\ thread_pc[t] = "release1"
  /\ Release(thread_number1[t])
  /\ thread_pc' = [thread_pc EXCEPT ![t] = "emit"]
  /\ UNCHANGED <<thread_number1, thread_number2, thread_result>>
  /\ UNCHANGED exceptThreads

\* data_updated.emit(0), which ends the call.
ThreadEmit(t) ==
  /\ thread_pc[t] = "emit"
  /\ thread_pc' = [thread_pc EXCEPT ![t] = "done"]
  /\ UNCHANGED <<thread_number1, thread_number2, thread_result, lock_owner, lock_count>>
  /\ UNCHANGED exceptThreads

ThreadStep(t) ==
  \/ ThreadLockFirst(t)
  \/ ThreadLockSecond(t)
  \/ ThreadCompute(t)
  \/ ThreadReleaseSecond(t)
  \/ ThreadReleaseFirst(t)
  \/ ThreadEmit(t)

vars ==
  <<nodeVars, verifierVars, dataVars, connectVars, sourceVars, displayVars, threadVars,
    fileVars, twinVars>>

Init ==
  /\ InitNode
  /\ InitVerifier
  /\ InitData
  /\ InitConnect
  /\ InitSource
  /\ InitDisplay
  /\ InitThreads
  /\ InitTwin

Next == Push \/ Step

\* A binary math node under any sequence of set_in_data calls.
Spec == Init /\ [][Next]_vars

NextOverflow == Push \/ PushHuge \/ Step

\* The same, with integers beyond the float range among the inputs.
SpecOverflow == Init /\ [][NextOverflow]_vars

NextDirect == Push \/ EnterComputeScope \/ Step

\* The same, with callers that enter the compute scope themselves.
SpecDirect == Init /\ [][NextDirect]_vars

NextPair == DeliverFirst \/ SwitchNode \/ DeliverSecond \/ Step

\* DivisionModel() and ModuloModel(): the first node is the Division node.
InitPair == Init /\ name = "Division"

\* A Division node and a Modulo node that receive the same set_in_data
\* calls, one node after the other.
SpecPair == InitPair /\ [][NextPair]_vars

\* The parts a specification does not move stay as constructed.
InitKinds == Init /\ name = "Addition"

NextKinds == DefineKind \/ DeriveKind

\* Class statements: a kind defined on NodeDataModel, then a kind derived
\* from it.
SpecKinds == InitKinds /\ [][NextKinds]_vars

NextData == DefineData \/ Instantiate \/ SameType

\* NodeData subclass statements, instances of the kinds and same_type calls.
SpecData == InitKinds /\ [][NextData]_vars

NextConnect == RegisterConverter \/ ConnectPorts

\* Converter registrations and connections between typed ports.
SpecConnect == InitKinds /\ [][NextConnect]_vars

NextSource == EditText \/ RestoreState

\* A NumberSource node: texts typed into it and documents restored into it.
SpecSource == InitKinds /\ [][NextSource]_vars

NextSaved == RestoreState \/ SaveNode \/ NewNode \/ LoadSaved

\* A NumberSource node that is restored, saved, and loaded from what was
\* saved into a newly constructed node.
SpecSaved == InitKinds /\ [][NextSaved]_vars

NextDisplay == DisplayPush

\* A NumberDisplay node under any sequence of set_in_data calls.
SpecDisplay == InitKinds /\ [][NextDisplay]_vars

NextThreads == Wire \/ \E t \in Threads : ThreadStep(t)

\* Two threads, each computing its node; a thread that can take its next
\* step is scheduled sooner or later.
SpecThreads ==
  /\ InitKinds
  /\ [][NextThreads]_vars
  /\ \A t \in Threads : WF_vars(ThreadStep(t))

\* ------------------------------------------------------------------ claims
\* A set_in_data call has run to its end (by return or by an exception).
CallDone == pc = "idle" /\ caller = "set_in_data"

\* Both input slots hold a present envelope of type id decimal or integer.
InputsOK == number_ok(number1) /\ number_ok(number2)

Warned ==
  /\ validation_state = "warning"
  /\ validation_message = "Missing or incorrect inputs"

\* C1: two-input gating. When a set_in_data call has ended and input slot 0 or
\* input slot 1 holds None or an envelope that is neither decimal nor integer,
\* the node is in warning with the message "Missing or incorrect inputs" and
\* out_data(0) is None, whatever was pushed before.
C1_TwoInputGating ==
  (CallDone /\ ~InputsOK) => (Warned /\ out_data(0) = None)

\* C1 witness: a call ended on incomplete inputs and cleared a prior result.
C1_Witness ==
  /\ CallDone
  /\ ~InputsOK
  /\ Warned
  /\ prevOut.out # None
  /\ out_data(0) = None

Signals == {emitted[i].signal : i \in 1..Len(emitted)}

\* C2: a set_in_data call that leaves the inputs incomplete or wrongly typed
\* emits "output 0 invalidated" and no "output 0 updated".
C2_InvalidatedNotUpdated ==
  (CallDone /\ ~InputsOK) =>
    ("data_invalidated" \in Signals /\ "data_updated" \notin Signals)

\* C3: compute() runs only while both slots hold an envelope, which a
\* set_in_data call has also found to be decimal or integer; a compute scope
\* entered with an absent input ends in RuntimeError with compute() never
\* invoked and nothing observable changed.
C3_ComputeNeedsInputs ==
  /\ (pc = "compute" \/ computeCalls > 0) =>
       /\ number1 # None
       /\ number2 # None
       /\ (caller = "set_in_data" => InputsOK)
  /\ (pc = "idle" /\ caller = "direct" /\ (number1 = None \/ number2 = None)) =>
       /\ raised = "RuntimeError"
       /\ computeCalls = 0
       /\ Observed = prevOut
       /\ emitted = <<>>

\* C3 witness: a scope entered with exactly one input absent has raised.
C3_Witness ==
  /\ pc = "idle"
  /\ caller = "direct"
  /\ number1 # None
  /\ number2 = None
  /\ raised = "RuntimeError"
  /\ computeCalls = 0

C7_LocksScoped ==
  /\ pc = "compute" =>
       /\ held[number1] >= 1
       /\ held[number2] >= 1
       /\ (number1 = number2 => held[number1] = 2)
  /\ pc \in {"check", "lock", "lock2"} => computeCalls = 0
  /\ pc = "idle" => \A e \in Envelopes : held[e] = 0

\* C7 witness: a set_in_data call ended by compute() raising, no lock held.
C7_Witness ==
  /\ CallDone
  /\ InputsOK
  /\ raised = "OverflowError"
  /\ computeCalls = 1
  /\ ~Holding

\* C8: propagation idempotence. When a set_in_data call that repeats the
\* (envelope, port) pair of the call before it has ended, out_data(0) and the
\* validation state and message are what they were after the first call.
C8_Idempotent ==
  (CallDone /\ repeat) => Observed = prevOut

\* C8 witness: a repeated push that recomputed a result.
C8_Witness ==
  /\ CallDone
  /\ repeat
  /\ InputsOK
  /\ computeCalls = 1
  /\ out_data(0) # None

\* The latest class statement defined a kind with a static num_ports.
StaticKind == depth >= 1 /\ ~kind.num_ports.dynamic

\* ... and the kind passed _verify.
Verified == StaticKind /\ kind.verify /\ outcome = "created"

\* The index entries a table holds for a direction.
Indexes(attr, pt) ==
  IF attr.is = "dict" /\ attr.dict[pt].given THEN DOMAIN attr.dict[pt].map ELSE {}

\* A derived table holds exactly the indexes 0..n-1 of each direction.
ExactTable(attr) ==
  /\ attr.is = "dict"
  /\ \A pt \in PortTypes : Indexes(attr, pt) = Range(Count(kind.num_ports, pt))

\* C9: verifier totality. Every kind with a static num_ports that passed
\* verification has, in each of _data_type, _port_caption and
\* port_caption_visible, exactly the input indexes 0..i-1 and the output
\* indexes 0..o-1, so no entry for a direction of count zero.
C9_VerifierTotality ==
  Verified =>
    /\ ExactTable(kind.data_type)
    /\ ExactTable(kind.port_caption)
    /\ ExactTable(kind.port_caption_visible)

AllTypesSet == kind.all_data_types # "None"
DataTypesSet == kind.data_types.given

\* C10 as stated: a class statement for a kind with a static num_ports that
\* sets both all_data_types and data_types, or neither, raises; a kind is
\* created only with exactly one of them set.
C10_MutualExclusivity ==
  (StaticKind /\ (AllTypesSet = DataTypesSet)) => outcome # "created"

\* C10 as amended: the same for kinds that are verified, that is, not defined
\* with verify=False: both set raises ValueError, neither set fails the
\* assert, and a verified kind has exactly one of the two set.
C10_MutualExclusivityVerified ==
  (StaticKind /\ kind.verify) =>
    /\ (AllTypesSet /\ DataTypesSet) => outcome = "ValueError"
    /\ (~AllTypesSet /\ ~DataTypesSet) => outcome = "AssertionError"
    /\ outcome = "created" => (AllTypesSet # DataTypesSet)

\* C10 witness: a kind derived from a verified kind with all_data_types adds
\* data_types and is refused.
C10_Witness ==
  /\ depth = 2
  /\ StaticKind
  /\ kind.verify
  /\ parent.verify
  /\ AllTypesSet
  /\ DataTypesSet
  /\ outcome = "ValueError"
  /\ reasons = {}

\* The entries of _port_caption that num_ports asks for and the table lacks.
CaptionInconsistencies ==
  IF kind.port_caption.is = "dict"
    THEN TableReasons(kind.num_ports, "_port_caption", kind.port_caption.dict)
    ELSE {}

\* C11: when the verification of a kind fails, the error raised lists every
\* inconsistency of the kind: every direction key and port index missing from
\* _port_caption is among its reasons, also when the data-type declaration of
\* the kind is inconsistent as well.
C11_AggregatedError ==
  (StaticKind /\ kind.verify /\ outcome # "created") =>
    CaptionInconsistencies \subseteq reasons

\* C12: a NodeData subclass statement that does not declare its own data_type
\* raises at class creation, so that no kind is left with the type of id None.
C12_DataTypeRequired ==
  (data_outcome # "none" /\ ~declared) =>
    /\ data_outcome = "ValueError"
    /\ data_kind.id # "None"

\* C13: type identity. For two NodeData instances x and y, x.same_type(y) is
\* true exactly when the ids of their data types are equal, whatever the
\* display names; same_type is reflexive and symmetric.
C13_TypeIdentity ==
  same.called =>
    /\ same.xy = (dataX.data_type.id = dataY.data_type.id)
    /\ same.xy = same.yx
    /\ same.xx
    /\ same.yy

\* C13 witness: two instances of one id under different display names are of
\* the same type.
C13_Witness ==
  /\ same.called
  /\ dataX.data_type.id = "decimal"
  /\ dataY.data_type.id = "decimal"
  /\ dataX.data_type.name # dataY.data_type.name
  /\ same.xy
  /\ same.yx

\* A connection between ports of differing type ids has been attempted.
Converting == connection.status # "none" /\ connection.source # connection.target

\* C14: type conversion at connection. Between ports of differing type ids the
\* downstream set_in_data is called only with what the converter registered
\* for exactly that (source id, target id) pair returns, an integer n
\* arriving as the decimal n; without a converter for the pair the connection
\* is refused and set_in_data is not called.
C14_ConversionAtConnection ==
  Converting =>
    LET fn == registry[<<connection.source, connection.target>>] IN
      /\ fn = "absent" => (connection.status = "refused" /\ delivered = <<>>)
      /\ delivered # <<>> =>
           /\ fn # "absent"
           /\ Len(delivered) = 1
           /\ data_type_id(delivered[1]) = connection.target
           /\ connection.source = "integer" =>
                delivered[1] = DecimalData(connection.data.number)
           /\ connection.source = "decimal" =>
                /\ delivered[1].number[2] = 1
                /\ Abs(delivered[1].number[1]) * connection.data.number[2]
                     <= Abs(connection.data.number[1])
                /\ Abs(connection.data.number[1])
                     < (Abs(delivered[1].number[1]) + 1) * connection.data.number[2]

\* C14 witness: an integer output wired to a decimal input arrived converted.
C14_Witness ==
  /\ Converting
  /\ connection.status = "connected"
  /\ connection.source = "integer"
  /\ connection.target = "decimal"
  /\ connection.data.number[1] = MaxNum
  /\ delivered = <<DecimalData(<<MaxNum, 1>>)>>

\* The latest call on the NumberSource node was a restore() of a document
\* without a "number" that float() accepts.
RestoredNothing == source_call.op = "restore" /\ ~source_call.floatable

\* C15: NumberSource.restore(state) never raises; when state has no "number"
\* key, or a value that is no number, the stored number (so out_data(0)) is
\* what it was and no notification is emitted.
C15_RestoreTolerant ==
  /\ source_call.op = "restore" => source_raised = "none"
  /\ RestoredNothing =>
       /\ source_kept
       /\ source_emitted = <<>>

\* C15 witness: a node holding a number other than its first one was given a
\* document whose "number" is a string that does not parse.
C15_Witness ==
  /\ RestoredNothing
  /\ source_call.has = "string"
  /\ source_number # DecimalData(<<0, 1>>)
  /\ source_kept
  /\ source_emitted = <<>>

\* C18: a NumberDisplay node reports its input health through
\* validation_state() and validation_message(): warning with a message when
\* fresh and after a set_in_data with None or an envelope that is neither
\* decimal nor integer, valid with an empty message after a decimal or
\* integer envelope.
C18_DisplayValidation ==
  IF number_ok(display_number)
    THEN /\ NodeDataModel_validation_state = "valid"
         /\ NodeDataModel_validation_message = ""
    ELSE /\ NodeDataModel_validation_state = "warning"
         /\ NodeDataModel_validation_message # ""

\* C19: after on_text_edited with a text that does not parse as a number, no
\* exception has propagated, data_invalidated(0) and no data_updated(0) was
\* emitted, and validation_state() is not valid and carries a message.
C19_MalformedLiteral ==
  (source_call.op = "on_text_edited" /\ ~Parses(line_edit)) =>
    /\ source_raised = "none"
    /\ source_emitted = <<"data_invalidated">>
    /\ NodeDataModel_validation_state # "valid"
    /\ NodeDataModel_validation_message # ""

\* The port indexes caption_override names for a direction.
Named(pt) ==
  LET co == kind.caption_override
      m == IF pt = "input" THEN co.inputs ELSE co.outputs
  IN  IF co.given /\ m.given THEN DOMAIN m.map ELSE {}

\* caption_override gives a map for the direction.
Overridden(pt) ==
  /\ kind.caption_override.given
  /\ IF pt = "input" THEN kind.caption_override.inputs.given
                     ELSE kind.caption_override.outputs.given

\* A verified kind, sound but for its captions (one data-type declaration,
\* that of all_data_types, and a full port_caption_visible), whose
\* caption_override names ports of the kind only and, in some direction it
\* overrides, not all of them.
OverridesSomePorts ==
  /\ StaticKind
  /\ kind.verify
  /\ AllTypesSet
  /\ ~DataTypesSet
  /\ \A pt \in PortTypes :
       /\ Range(Count(kind.num_ports, pt)) \subseteq Indexes(kind.port_caption_visible, pt)
       /\ Named(pt) \subseteq Range(Count(kind.num_ports, pt))
  /\ \E pt \in PortTypes :
       Overridden(pt) /\ Named(pt) # Range(Count(kind.num_ports, pt))

\* C16: a caption_override overrides the captions of the ports it names only:
\* a kind whose override names a strict subset of the ports of a direction is
\* verified, and every port the override does not name has the blank caption.
C16_OverrideNamedPortsOnly ==
  OverridesSomePorts =>
    /\ outcome = "created"
    /\ \A pt \in PortTypes :
         \A i \in Range(Count(kind.num_ports, pt)) \ Named(pt) :
           /\ i \in Indexes(kind.port_caption, pt)
           /\ kind.port_caption.dict[pt].map[i] = ""

\* A verified kind with all_data_types, no caption_override and no
\* port_caption_visible of its own.
PlainVerifiedKind ==
  /\ StaticKind
  /\ kind.verify
  /\ AllTypesSet
  /\ ~DataTypesSet
  /\ ~kind.caption_override.given
  /\ ~kind.own_visible

\* C17: port_caption_visible is rebuilt for the kind's own num_ports unless it
\* is a full mapping for them already: a class statement that derives a kind
\* from a verified kind and declares a different num_ports, and nothing else,
\* succeeds, leaves the new kind with a port_caption_visible of exactly its
\* own indexes, and leaves the parent kind as it was.
C17_VisibleRebuilt ==
  [][(/\ depth = 1
      /\ outcome = "created"
      /\ PlainVerifiedKind
      /\ PlainVerifiedKind'
      /\ kind'.num_ports # kind.num_ports)
     => (/\ outcome' = "created"
         /\ ExactTable(kind.port_caption_visible)'
         /\ parent' = kind)]_vars

\* The thread waits for a lock that another thread owns.
Blocked(t) ==
  \/ thread_pc[t] = "lock" /\ ~CanAcquire(t, thread_number1[t])
  \/ thread_pc[t] = "lock2" /\ ~CanAcquire(t, thread_number2[t])

Unfinished == {t \in Threads : thread_pc[t] \notin {"unwired", "done"}}

\* C20: taking the two envelopes' locks in port order avoids deadlock. Two
\* nodes computed concurrently on overlapping envelopes, also with envelope x
\* at port 0 of one and port 1 of the other and envelope y the reverse, never
\* reach a state in which every unfinished computation waits for a lock that
\* the other holds; and one envelope at both ports of a node does not block
\* the node itself.
C20_PortOrderAvoidsDeadlock ==
  /\ Unfinished # {} => \E t \in Unfinished : ~Blocked(t)
  /\ \A t \in Threads :
       (thread_pc[t] = "lock2" /\ thread_number1[t] = thread_number2[t]) => ~Blocked(t)


\* C21: save() and restore() of a NumberSource are symmetric: a node
\* restored from the dict that save() returned for a node holding v ends
\* with out_data(0) holding exactly v, and its own save() returns that dict.
C21_SaveRestoreSymmetric ==
  source_loaded =>
    /\ source_number = DecimalData(source_saved.number)
    /\ save = source_saved

\* r is the number the kind's operation gives for the numbers a and b.
Applied(op, a, b, r) ==
  CASE op = "Addition" -> r = <<a[1] + b[1], 1>>
    [] op = "Subtraction" -> r = <<a[1] - b[1], 1>>
    [] op = "Multiplication" -> r = <<a[1] * b[1], 1>>
    [] op = "Division" -> b[1] # 0 /\ r[1] * b[1] = a[1] * r[2]
    [] op = "Modulo" -> b[1] > 0 /\ r = <<a[1] % b[1], 1>>

SameCalls == phase \in {"synced", "second"} /\ pc = "idle"

\* The Modulo node and the Division node of the pair.
ModuloNode == IF name = "Modulo" THEN NodeState ELSE twin
DivisionNode == IF name = "Division" THEN NodeState ELSE twin

====
